---- MODULE Spec2Model ----
(***************************************************************************)
(* A model of src/server.js: the two request handlers of the RAG server    *)
(* (POST /api/index-document, POST /api/answer-question) and the five      *)
(* pipeline functions they call.  Every handler runs from one await to     *)
(* the next as one atomic step (Node runs a handler without interruption   *)
(* between two awaits); the external services (the text splitter, the      *)
(* embedding provider, the Pinecone index, the language model) answer or   *)
(* fail in steps of their own.                                             *)
(***************************************************************************)
EXTENDS Integers, Sequences, FiniteSets, TLC

(***************************************************************************)
(* Bounds of the model.                                                    *)
(***************************************************************************)
NumReqs == 2          \* request slots of the interleaved specification
MaxChunks == 1        \* most chunks the splitter returns under Spec
MaxBatches == 2       \* the splitter returns up to MaxBatches full batches + 1 under SpecOne
MaxMatches == 4       \* most matches the index is let to answer with under SpecOne
MaxContext == 3       \* most context items generateAnswer is called with under SpecGenerate
MaxClock == 1         \* the millisecond clock runs from 0 to MaxClock

(***************************************************************************)
(* Program constants.                                                      *)
(***************************************************************************)
MaxDocumentLength == 500000
MaxQuestionLength == 1000
batchSize == 100
topK == 3
chunkSize == 500
chunkOverlap == 100
IndexDimension == 768

(***************************************************************************)
(* JavaScript values, as far as the handlers look at them: the type, and   *)
(* v = the number (number), 0/1 (boolean), the length (string); s is a     *)
(* number naming a string's content (0 for the other types).               *)
(***************************************************************************)
JsVal(t, v, s) == [t |-> t, v |-> v, s |-> s]
Undefined == JsVal("undefined", 0, 0)
Null == JsVal("null", 0, 0)
Str(len, s) == JsVal("string", len, s)
Num(n) == JsVal("number", n, 0)
Bool(b) == JsVal("boolean", IF b THEN 1 ELSE 0, 0)
Obj == JsVal("object", 0, 0)

\* typeof x
TypeOf(x) == IF x.t = "null" THEN "object" ELSE x.t

\* !!x
Truthy(x) ==
    CASE x.t = "undefined" -> FALSE
      [] x.t = "null" -> FALSE
      [] x.t = "boolean" -> x.v = 1
      [] x.t = "number" -> x.v # 0
      [] x.t = "string" -> x.v > 0
      [] OTHER -> TRUE

\* x.length of a string
Length(x) == x.v

(***************************************************************************)
(* The state.                                                              *)
(***************************************************************************)
VARIABLES
    NODE_ENV,   \* the runtime mode read at start-up
    now,        \* Date.now(), in milliseconds
    pinecone,   \* the records of the external index, in the order of first insertion
    reqs        \* reqs[r]: the handler invocation of request r and its local variables

vars == <<NODE_ENV, now, pinecone, reqs>>

Reqs == 1..NumReqs

\* A request slot no request has arrived on.
IdleReq ==
    [kind |-> "none", pc |-> "idle", body |-> Undefined,
     chunks |-> <<>>, vectors |-> <<>>, records |-> <<>>, i |-> 0,
     queryVector |-> [dim |-> 0, pt |-> 0], matches |-> <<>>,
     relevantChunks |-> <<>>, prompt |-> <<>>, response |-> [text |-> Undefined],
     calls |-> <<>>, rets |-> <<>>, resp |-> <<>>]

(***************************************************************************)
(* Responses.  A field whose value is undefined is absent from the JSON.   *)
(* The duration field (Date.now() - startTime), a measurement that no step *)
(* reads, is left out of the responses, and startTime with it.             *)
(***************************************************************************)
ClientError(message) ==
    [status |-> 400, error |-> message, success |-> FALSE]

\* ServerError with the test of the mode inverted: details in production.
ServerErrorInProduction(error, message) ==
    IF NODE_ENV = "production"
    THEN [status |-> 500, error |-> error, success |-> FALSE, details |-> message]
    ELSE [status |-> 500, error |-> error, success |-> FALSE]

ServerError(error, message) ==
    IF NODE_ENV = "development"
    THEN [status |-> 500, error |-> error, success |-> FALSE, details |-> message]
    ELSE [status |-> 500, error |-> error, success |-> FALSE]

\* res.status(..).json(..): the response is sent and the handler ends.
Respond(q, response) ==
    [q EXCEPT !.resp = Append(@, response), !.pc = "done"]

\* The handler awaits an external call.
Call(q, c) ==
    [q EXCEPT !.calls = Append(@, c), !.pc = c.op]

\* The awaited call returned.
Returned(q) == [q EXCEPT !.rets = Append(@, "ok")]

\* The awaited call threw.
Thrown(q) == [q EXCEPT !.rets = Append(@, "fail")]

(***************************************************************************)
(* POST /api/index-document.                                               *)
(***************************************************************************)
\* The catch block of the index handler without its res.status(500).json(...).
IndexCatchSilent(q, message) ==
    [q EXCEPT !.pc = "done"]

\* The catch block of the index handler.
IndexCatch(q, message) ==
    Respond(q, ServerError("Failed to index document. Please try again.",
                           message))

\* ValidateDocument with the length check off by one (>= for >).
ValidateDocumentOffByOne(documentText) ==
    IF ~Truthy(documentText) THEN "Document text is required."
    ELSE IF TypeOf(documentText) # "string" THEN "Document text must be a string."
    ELSE IF Length(documentText) >= MaxDocumentLength
         THEN "Document text exceeds maximum length of 500,000 characters."
    ELSE ""

\* The three input checks: the message of the first that fails, "" if none.
ValidateDocument(documentText) ==
    IF ~Truthy(documentText) THEN "Document text is required."
    ELSE IF TypeOf(documentText) # "string" THEN "Document text must be a string."
    ELSE IF Length(documentText) > MaxDocumentLength
         THEN "Document text exceeds maximum length of 500,000 characters."
    ELSE ""

\* The success response of the index handler.
IndexSuccess(q, recordCount) ==
    Respond(q, [status |-> 200,
                message |-> "Document successfully indexed with "
                            \o ToString(Len(q.chunks)) \o " chunks.",
                success |-> TRUE,
                chunkCount |-> Len(q.chunks),
                recordCount |-> recordCount])

\* processDocument, up to its await.
processDocument(q, documentText) ==
    IF ~Truthy(documentText) \/ TypeOf(documentText) # "string"
    THEN IndexCatch(q, "Invalid document text provided")
    ELSE Call(q, [op |-> "splitText", text |-> documentText,
                  chunkSize |-> chunkSize, chunkOverlap |-> chunkOverlap])

\* generateEmbeddings, up to its await.
generateEmbeddings(q, chunks) ==
    IF Len(chunks) = 0
    THEN IndexCatch(q, "Invalid chunks array provided")
    ELSE Call(q, [op |-> "embedDocuments", texts |-> chunks])

\* The rest of processDocument, and the handler up to the next await.
processDocumentResume(q, chunks) ==
    IF Len(chunks) = 0
    THEN IndexCatch(q, "Document chunking resulted in zero chunks")
    ELSE generateEmbeddings([q EXCEPT !.chunks = chunks], chunks)

\* Math.random().toString(36).substr(2, 9): the suffixes the generator may give.
Suffixes == <<"k3j9x0q2m", "7f1zt8w4c">>

\* The suffix of the n-th call of Math.random() in a run started with `seed`.
RandomSuffix(seed, n) == Suffixes[((seed + n) % Len(Suffixes)) + 1]

\* The id of the record of chunk i (0-based), made at time t.
RecordId(i, t, suffix) ==
    "chunk_" \o ToString(i) \o "_" \o ToString(t) \o "_" \o suffix

\* Slice with the end included: consecutive batches share a record.
SliceInclusive(s, from, to) ==
    SubSeq(s, from + 1, IF to + 1 < Len(s) THEN to + 1 ELSE Len(s))

\* records.slice(from, to), 0-based, `to` excluded.
Slice(s, from, to) ==
    SubSeq(s, from + 1, IF to < Len(s) THEN to ELSE Len(s))

\* The loop of storeInPinecone from let/next i to the next await, or to its return.
upsertLoop(q) ==
    IF q.i < Len(q.records)
    THEN Call(q, [op |-> "upsert", batch |-> Slice(q.records, q.i, q.i + batchSize)])
    ELSE IndexSuccess(q, Len(q.records))

\* MakeRecords pairing chunk k with the vector counted from the end.
MakeRecordsReversed(chunks, vectors, seed) ==
    [k \in 1..Len(chunks) |->
        [id |-> RecordId(k - 1, now, RandomSuffix(seed, k)),
         values |-> vectors[Len(vectors) - k + 1],
         metadata |-> [text |-> chunks[k], timestamp |-> now]]]

\* chunks.map(...) of storeInPinecone: the map runs without an await, within
\* the millisecond `now`; the k-th record takes the k-th random suffix.
MakeRecords(chunks, vectors, seed) ==
    [k \in 1..Len(chunks) |->
        [id |-> RecordId(k - 1, now, RandomSuffix(seed, k)),
         values |-> vectors[k],
         metadata |-> [text |-> chunks[k], timestamp |-> now]]]

\* storeInPinecone without its length check: one record per chunk, a missing
\* vector read as an empty one.
storeInPineconeUnchecked(q, chunks, vectors, seed) ==
    upsertLoop([q EXCEPT
        !.records = [k \in 1..Len(chunks) |->
                        [id |-> RecordId(k - 1, now, RandomSuffix(seed, k)),
                         values |-> IF k <= Len(vectors) THEN vectors[k]
                                    ELSE [dim |-> 0, pt |-> 0],
                         metadata |-> [text |-> chunks[k], timestamp |-> now]]],
        !.i = 0])

\* storeInPinecone, up to its first await.
storeInPinecone(q, chunks, vectors, seed) ==
    IF Len(chunks) # Len(vectors)
    THEN IndexCatch(q, "Mismatch between chunks and vectors length")
    ELSE upsertLoop([q EXCEPT !.records = MakeRecords(chunks, vectors, seed),
                              !.i = 0])

\* The rest of generateEmbeddings, and the handler up to the next await.
\* res.nul: the provider resolved with null; res.list: the vectors otherwise.
generateEmbeddingsResume(q, res, seed) ==
    IF res.nul \/ Len(res.list) = 0 \/ res.list[1].dim = 0
    THEN IndexCatch(q, "Failed to generate valid embeddings - empty vectors returned")
    ELSE storeInPinecone([q EXCEPT !.vectors = res.list], q.chunks, res.list, seed)

(***************************************************************************)
(* POST /api/answer-question.                                              *)
(***************************************************************************)
\* The catch block of the answer handler.
AnswerCatch(q, message) ==
    Respond(q, ServerError("Failed to answer the question. Please try again.",
                           message))

\* ValidateQuestion with the type check before the presence check.
ValidateQuestionTypeFirst(question) ==
    IF TypeOf(question) # "string" THEN "Question must be a string."
    ELSE IF ~Truthy(question) THEN "Question is required."
    ELSE IF Length(question) > MaxQuestionLength
         THEN "Question exceeds maximum length of 1,000 characters."
    ELSE ""

\* The three input checks: the message of the first that fails, "" if none.
ValidateQuestion(question) ==
    IF ~Truthy(question) THEN "Question is required."
    ELSE IF TypeOf(question) # "string" THEN "Question must be a string."
    ELSE IF Length(question) > MaxQuestionLength
         THEN "Question exceeds maximum length of 1,000 characters."
    ELSE ""

\* queryDocument, up to its first await.
queryDocument(q, question) ==
    IF ~Truthy(question) \/ TypeOf(question) # "string"
    THEN AnswerCatch(q, "Invalid question provided")
    ELSE Call(q, [op |-> "embedQuery", text |-> question])

\* queryDocument from the embedded question to its second await.
queryDocumentSearch(q, queryVector) ==
    Call([q EXCEPT !.queryVector = queryVector],
         [op |-> "query", vector |-> queryVector, topK |-> topK,
          includeMetadata |-> TRUE])

\* A match that carries no metadata.
NoMetadata == [absent |-> TRUE]

\* match.metadata?.text
MetadataText(match) ==
    IF match.metadata = NoMetadata THEN Undefined ELSE match.metadata.text

\* HasText without the typeof test.
HasTextUntyped(match) == Truthy(MetadataText(match))

\* The filter of queryDocument.
HasText(match) ==
    Truthy(MetadataText(match)) /\ TypeOf(MetadataText(match)) = "string"

\* searchResults.matches.filter(...).map(...)
RelevantChunks(matches) ==
    LET kept == SelectSeq(matches, HasText)
    IN  [k \in 1..Len(kept) |-> MetadataText(kept[k])]

\* A literal piece of a template string.
Lit(x) == [lit |-> x]

\* ContextEntry with the index 0-based: `[${i}] ${c}`.
ContextEntryZeroBased(c, i) == <<Lit("["), Lit(ToString(i)), Lit("] "), c>>

\* One entry of the context section: `[${i + 1}] ${c}`, i 0-based.
ContextEntry(c, i) == <<Lit("["), Lit(ToString(i + 1)), Lit("] "), c>>

\* pieces.join(sep), the pieces and the result being sequences of tokens.
RECURSIVE Join(_, _)
Join(pieces, sep) ==
    IF Len(pieces) = 0 THEN <<>>
    ELSE IF Len(pieces) = 1 THEN pieces[1]
    ELSE pieces[1] \o <<sep>> \o Join(Tail(pieces), sep)

\* The prompt of generateAnswer, as the sequence of its literal pieces and the
\* values interpolated between them.
Prompt(question, context) ==
    <<Lit("You are a helpful assistant. Answer the question using ONLY the provided context.\nIf the answer is not found in the context, state that clearly and do not make up information.\n\nQuestion: "),
      question,
      Lit("\n\nContext:\n")>>
    \o Join([k \in 1..Len(context) |-> ContextEntry(context[k], k - 1)], Lit("\n\n"))
    \o <<Lit("\n\nAnswer with citations (e.g., [1], [2]):")>>

\* generateAnswer, up to its await.
generateAnswer(q, question, context) ==
    IF Len(context) = 0
    THEN AnswerCatch(q, "No context available for answer generation")
    ELSE Call([q EXCEPT !.prompt = Prompt(question, context)],
              [op |-> "generateContent", model |-> "gemini-2.5-flash",
               contents |-> Prompt(question, context)])

\* The response of the answer handler to an empty retrieval.
NotFound(q) ==
    Respond(q, [status |-> 200,
                answer |-> "I couldn't find any relevant information in the document store to answer that question.",
                success |-> TRUE,
                chunksRetrieved |-> 0])

\* queryDocumentResume without the branch on an empty retrieval.
queryDocumentResumeNoBranch(q, matches) ==
    LET relevantChunks == RelevantChunks(matches)
        q1 == [q EXCEPT !.matches = matches, !.relevantChunks = relevantChunks]
    IN  generateAnswer(q1, q.body, relevantChunks)

\* The rest of queryDocument, and the handler up to the next await.
queryDocumentResume(q, matches) ==
    LET relevantChunks == RelevantChunks(matches)
        q1 == [q EXCEPT !.matches = matches, !.relevantChunks = relevantChunks]
    IN  IF Len(relevantChunks) = 0
        THEN NotFound(q1)
        ELSE generateAnswer(q1, q.body, relevantChunks)

\* The rest of generateAnswer, and of the handler.
generateAnswerResume(q, response) ==
    Respond([q EXCEPT !.response = response],
               [status |-> 200,
                answer |-> response.text,
                success |-> TRUE,
                chunksRetrieved |-> Len(q.relevantChunks)])

(***************************************************************************)
(* The external services.                                                  *)
(***************************************************************************)
\* The chunks the splitter returns for a document it cuts in n pieces.
Chunks(n) == [k \in 1..n |-> Str(chunkSize, k)]

\* The vector of a text under text-embedding-004.
Embedding(text) == [dim |-> IndexDimension, pt |-> text.s % 2]

\* What embedDocuments may resolve with for `texts`: the embeddings, and the
\* results of a provider that misbehaves.
EmbedOutcomes ==
    {"ok", "null", "none", "firstEmpty", "lastEmpty", "short", "long"}

EmbedResult(texts, outcome) ==
    LET n == Len(texts)
        good == [k \in 1..n |-> Embedding(texts[k])]
        empty == [dim |-> 0, pt |-> 0]
    IN  CASE outcome = "ok" -> [nul |-> FALSE, list |-> good]
          [] outcome = "null" -> [nul |-> TRUE, list |-> <<>>]
          [] outcome = "none" -> [nul |-> FALSE, list |-> <<>>]
          [] outcome = "firstEmpty" ->
                [nul |-> FALSE, list |-> [good EXCEPT ![1] = empty]]
          [] outcome = "lastEmpty" ->
                [nul |-> FALSE, list |-> [good EXCEPT ![n] = empty]]
          [] outcome = "short" -> [nul |-> FALSE, list |-> SubSeq(good, 1, n - 1)]
          [] OTHER -> [nul |-> FALSE, list |-> Append(good, Embedding(texts[1]))]

\* The messages of the errors the external clients throw.
ProviderErrors == {"fetch failed", "401 Unauthorized"}

\* index.upsert(batch) on the index: a record whose id is stored replaces the
\* stored one, the others are added in order (the last of two with one id wins).
Upsert(store, batch) ==
    LET Last(id) == CHOOSE k \in 1..Len(batch) :
                        /\ batch[k].id = id
                        /\ \A j \in (k + 1)..Len(batch) : batch[j].id # id
        replaced == [p \in 1..Len(store) |->
                        IF \E k \in 1..Len(batch) : batch[k].id = store[p].id
                        THEN batch[Last(store[p].id)]
                        ELSE store[p]]
        IsNew(k) == /\ \A p \in 1..Len(store) : store[p].id # batch[k].id
                    /\ \A j \in 1..(k - 1) : batch[j].id # batch[k].id
        fresh == SelectSeq([k \in 1..Len(batch) |-> k], IsNew)
    IN  replaced \o [k \in 1..Len(fresh) |-> batch[Last(batch[fresh[k]].id)]]

\* The index accepts only vectors of its dimension.
Accepts(batch) == \A k \in 1..Len(batch) : batch[k].values.dim = IndexDimension

\* index.query({vector, topK, includeMetadata}): the k stored records nearest to
\* the vector, nearest first, the earlier stored first among equally near ones.
Search(store, call) ==
    LET Dist(p) == IF store[p].values.pt >= call.vector.pt
                   THEN store[p].values.pt - call.vector.pt
                   ELSE call.vector.pt - store[p].values.pt
        Before(a, b) == Dist(a) < Dist(b) \/ (Dist(a) = Dist(b) /\ a < b)
        Rank(p) == 1 + Cardinality({a \in 1..Len(store) : Before(a, p)})
        n == IF Len(store) < call.topK THEN Len(store) ELSE call.topK
    IN  [k \in 1..n |->
            LET p == CHOOSE a \in 1..Len(store) : Rank(a) = k
            IN  [id |-> store[p].id,
                 metadata |-> IF call.includeMetadata
                              THEN store[p].metadata ELSE NoMetadata]]

(***************************************************************************)
(* The steps.                                                              *)
(***************************************************************************)
Awaits(r, op) == reqs[r].pc = op

\* A POST /api/index-document arrives: the handler runs to its first await.
IndexDocument(r, documentText) ==
    /\ Awaits(r, "idle")
    /\ LET q == [reqs[r] EXCEPT !.kind = "index", !.body = documentText]
           invalid == ValidateDocument(documentText)
       IN  reqs' = [reqs EXCEPT ![r] =
                       IF invalid # "" THEN Respond(q, ClientError(invalid))
                       ELSE processDocument(q, documentText)]
    /\ UNCHANGED <<NODE_ENV, now, pinecone>>

\* SplitTextReturns with `chunks` held in a variable of the module instead of a
\* local of the handler: every request that awaits its splitter sees them.
SplitTextReturnsShared(r, chunks) ==
    /\ Awaits(r, "splitText")
    /\ reqs' = [j \in Reqs |->
                  IF j = r THEN processDocumentResume(Returned(reqs[r]), chunks)
                  ELSE IF reqs[j].pc = "splitText"
                       THEN [reqs[j] EXCEPT !.chunks = chunks]
                       ELSE reqs[j]]
    /\ UNCHANGED <<NODE_ENV, now, pinecone>>

SplitTextReturns(r, chunks) ==
    /\ Awaits(r, "splitText")
    /\ reqs' = [reqs EXCEPT ![r] = processDocumentResume(Returned(@), chunks)]
    /\ UNCHANGED <<NODE_ENV, now, pinecone>>

SplitTextFails(r, message) ==
    /\ Awaits(r, "splitText")
    /\ reqs' = [reqs EXCEPT ![r] = IndexCatch(Thrown(@), message)]
    /\ UNCHANGED <<NODE_ENV, now, pinecone>>

EmbedDocumentsReturns(r, outcome, seed) ==
    /\ Awaits(r, "embedDocuments")
    /\ reqs' = [reqs EXCEPT ![r] =
                   generateEmbeddingsResume(Returned(@),
                                            EmbedResult(@.chunks, outcome), seed)]
    /\ UNCHANGED <<NODE_ENV, now, pinecone>>

EmbedDocumentsFails(r, message) ==
    /\ Awaits(r, "embedDocuments")
    /\ reqs' = [reqs EXCEPT ![r] = IndexCatch(Thrown(@), message)]
    /\ UNCHANGED <<NODE_ENV, now, pinecone>>

\* The batch the request's pending upsert submitted.
PendingBatch(r) == reqs[r].calls[Len(reqs[r].calls)].batch

UpsertReturns(r) ==
    /\ Awaits(r, "upsert")
    /\ Accepts(PendingBatch(r))
    /\ pinecone' = Upsert(pinecone, PendingBatch(r))
    /\ reqs' = [reqs EXCEPT ![r] =
                   upsertLoop([Returned(@) EXCEPT !.i = @ + batchSize])]
    /\ UNCHANGED <<NODE_ENV, now>>

\* UpsertFails with the error caught inside the loop, which goes on to the
\* next batch.
UpsertFailsContinues(r, message) ==
    /\ Awaits(r, "upsert")
    /\ reqs' = [reqs EXCEPT ![r] =
                   upsertLoop([Thrown(@) EXCEPT !.i = @ + batchSize])]
    /\ UNCHANGED <<NODE_ENV, now, pinecone>>

UpsertFails(r, message) ==
    /\ Awaits(r, "upsert")
    /\ reqs' = [reqs EXCEPT ![r] = IndexCatch(Thrown(@), message)]
    /\ UNCHANGED <<NODE_ENV, now, pinecone>>

\* A POST /api/answer-question arrives: the handler runs to its first await.
AnswerQuestion(r, question) ==
    /\ Awaits(r, "idle")
    /\ LET q == [reqs[r] EXCEPT !.kind = "answer", !.body = question]
           invalid == ValidateQuestion(question)
       IN  reqs' = [reqs EXCEPT ![r] =
                       IF invalid # "" THEN Respond(q, ClientError(invalid))
                       ELSE queryDocument(q, question)]
    /\ UNCHANGED <<NODE_ENV, now, pinecone>>

\* EmbedQueryReturns of a queryDocument that also stores the query vector.
EmbedQueryReturnsStoring(r, queryVector) ==
    /\ Awaits(r, "embedQuery")
    /\ reqs' = [reqs EXCEPT ![r] = queryDocumentSearch(Returned(@), queryVector)]
    /\ pinecone' = Upsert(pinecone,
                          <<[id |-> "query_" \o ToString(now), values |-> queryVector,
                             metadata |-> [text |-> reqs[r].body, timestamp |-> now]]>>)
    /\ UNCHANGED <<NODE_ENV, now>>

EmbedQueryReturns(r, queryVector) ==
    /\ Awaits(r, "embedQuery")
    /\ reqs' = [reqs EXCEPT ![r] = queryDocumentSearch(Returned(@), queryVector)]
    /\ UNCHANGED <<NODE_ENV, now, pinecone>>

EmbedQueryFails(r, message) ==
    /\ Awaits(r, "embedQuery")
    /\ reqs' = [reqs EXCEPT ![r] = AnswerCatch(Thrown(@), message)]
    /\ UNCHANGED <<NODE_ENV, now, pinecone>>

\* The call the request is waiting for.
PendingCall(r) == reqs[r].calls[Len(reqs[r].calls)]

QueryReturns(r, matches) ==
    /\ Awaits(r, "query")
    /\ Len(matches) <= PendingCall(r).topK
    /\ reqs' = [reqs EXCEPT ![r] = queryDocumentResume(Returned(@), matches)]
    /\ UNCHANGED <<NODE_ENV, now, pinecone>>

QueryFails(r, message) ==
    /\ Awaits(r, "query")
    /\ reqs' = [reqs EXCEPT ![r] = AnswerCatch(Thrown(@), message)]
    /\ UNCHANGED <<NODE_ENV, now, pinecone>>

GenerateContentReturns(r, text) ==
    /\ Awaits(r, "generateContent")
    /\ reqs' = [reqs EXCEPT ![r] =
                   generateAnswerResume(Returned(@), [text |-> text])]
    /\ UNCHANGED <<NODE_ENV, now, pinecone>>

GenerateContentFails(r, message) ==
    /\ Awaits(r, "generateContent")
    /\ reqs' = [reqs EXCEPT ![r] = AnswerCatch(Thrown(@), message)]
    /\ UNCHANGED <<NODE_ENV, now, pinecone>>

\* generateAnswer is called with a question and a context of the caller's
\* choice, as the answer handler calls it.
GenerateAnswerCalled(r, question, context) ==
    /\ Awaits(r, "idle")
    /\ reqs' = [reqs EXCEPT ![r] =
                   generateAnswer([@ EXCEPT !.kind = "generate", !.body = question,
                                            !.relevantChunks = context],
                                  question, context)]
    /\ UNCHANGED <<NODE_ENV, now, pinecone>>

\* A millisecond passes.
Tick ==
    /\ now < MaxClock
    /\ now' = now + 1
    /\ UNCHANGED <<NODE_ENV, pinecone, reqs>>

(***************************************************************************)
(* The inputs and the answers of the services the specifications draw from.*)
(***************************************************************************)
\* process.env.NODE_ENV || 'development'
Modes == {"development", "production", "test"}

\* Values of req.body.documentText.
Documents ==
    {Undefined, Null, Num(0), Num(7), Bool(TRUE), Obj, Str(0, 0),
     Str(1, 1), Str(MaxDocumentLength, 1), Str(MaxDocumentLength + 1, 1),
     Str(600001, 1)}

\* Values of req.body.question.
Questions ==
    {Undefined, Null, Num(0), Num(7), Bool(FALSE), Obj, Str(0, 0),
     Str(1, 2), Str(MaxQuestionLength, 3), Str(MaxQuestionLength + 1, 2)}

\* The texts the language model answers with.
Answers == {Str(40, 8), Str(0, 0)}

Seeds == 0..(Len(Suffixes) - 1)

Init ==
    /\ NODE_ENV \in Modes
    /\ now = 0
    /\ pinecone = <<>>
    /\ reqs = [r \in Reqs |-> IdleReq]

\* The matches the index may answer a query with, other than stored records:
\* with a text, without metadata, without a text, with an empty text, with a
\* text that is no string.
MatchShapes ==
    {[id |-> "m1", metadata |-> [text |-> Str(chunkSize, 1), timestamp |-> 0]],
     [id |-> "m2", metadata |-> [text |-> Str(3, 2), timestamp |-> 0]],
     [id |-> "m3", metadata |-> NoMetadata],
     [id |-> "m4", metadata |-> [text |-> Str(0, 0), timestamp |-> 0]],
     [id |-> "m5", metadata |-> [text |-> Num(5), timestamp |-> 0]]}

SeqsUpTo(S, n) == UNION {[1..k -> S] : k \in 0..n}

\* The numbers of chunks around the batch boundaries.
BatchChunkCounts ==
    {0, 1, 2} \cup {k * batchSize + d : k \in 1..MaxBatches, d \in {-1, 0, 1}}

\* Requests are numbered in the order of their arrival.
Arrives(r) == \A j \in 1..(r - 1) : reqs[j].pc # "idle"

(***************************************************************************)
(* Spec: NumReqs requests, index or answer, interleaved at their awaits,   *)
(* against one index; the index answers a query with its nearest records.  *)
(***************************************************************************)
Next ==
    \/ Tick
    \/ \E r \in Reqs :
        \/ \E d \in {Undefined, Str(1, 1)} : Arrives(r) /\ IndexDocument(r, d)
        \/ \E n \in 0..MaxChunks : SplitTextReturns(r, Chunks(n))
        \/ SplitTextFails(r, "fetch failed")
        \/ \E o \in {"ok", "long"}, seed \in Seeds : EmbedDocumentsReturns(r, o, seed)
        \/ EmbedDocumentsFails(r, "fetch failed")
        \/ UpsertReturns(r)
        \/ UpsertFails(r, "fetch failed")
        \/ \E x \in {Undefined, Str(1, 2)} : Arrives(r) /\ AnswerQuestion(r, x)
        \/ EmbedQueryReturns(r, Embedding(reqs[r].body))
        \/ EmbedQueryFails(r, "fetch failed")
        \/ QueryReturns(r, Search(pinecone, PendingCall(r)))
        \/ QueryFails(r, "fetch failed")
        \/ \E t \in Answers : GenerateContentReturns(r, t)
        \/ GenerateContentFails(r, "fetch failed")

Spec == Init /\ [][Next]_vars

\* The external service awaited by request r answers: its call returns or throws.
ExternalAnswers(r) ==
    \/ \E n \in 0..MaxChunks : SplitTextReturns(r, Chunks(n))
    \/ SplitTextFails(r, "fetch failed")
    \/ \E o \in {"ok", "long"}, seed \in Seeds : EmbedDocumentsReturns(r, o, seed)
    \/ EmbedDocumentsFails(r, "fetch failed")
    \/ UpsertReturns(r)
    \/ UpsertFails(r, "fetch failed")
    \/ EmbedQueryReturns(r, Embedding(reqs[r].body))
    \/ EmbedQueryFails(r, "fetch failed")
    \/ QueryReturns(r, Search(pinecone, PendingCall(r)))
    \/ QueryFails(r, "fetch failed")
    \/ \E t \in Answers : GenerateContentReturns(r, t)
    \/ GenerateContentFails(r, "fetch failed")

\* Spec under the assumption that no awaited external call stays pending for
\* ever; the handler resumes as soon as the event loop delivers the outcome.
\* The clock stands still and the server runs in production mode: neither is
\* read by a condition that decides whether a handler goes on.
NextFair ==
    \E r \in Reqs :
        \/ \E d \in {Undefined, Str(1, 1)} : Arrives(r) /\ IndexDocument(r, d)
        \/ \E x \in {Undefined, Str(1, 2)} : Arrives(r) /\ AnswerQuestion(r, x)
        \/ ExternalAnswers(r)

InitFair == Init /\ NODE_ENV = "production"

FairSpec ==
    /\ InitFair
    /\ [][NextFair]_vars
    /\ \A r \in Reqs : WF_vars(ExternalAnswers(r))

(***************************************************************************)
(* SpecOne: one request, index or answer, over the whole range of inputs   *)
(* and of answers of the external services: documents that fill several    *)
(* batches, every shape of embedding result, any matches from the index.   *)
(***************************************************************************)
NextOne ==
    \/ Tick
    \/ \E r \in {1} :
        \/ \E d \in Documents : IndexDocument(r, d)
        \/ \E n \in BatchChunkCounts : SplitTextReturns(r, Chunks(n))
        \/ \E e \in ProviderErrors : SplitTextFails(r, e)
        \/ \E o \in EmbedOutcomes, seed \in Seeds : EmbedDocumentsReturns(r, o, seed)
        \/ \E e \in ProviderErrors : EmbedDocumentsFails(r, e)
        \/ UpsertReturns(r)
        \/ \E e \in ProviderErrors : UpsertFails(r, e)
        \/ \E x \in Questions : AnswerQuestion(r, x)
        \/ EmbedQueryReturns(r, Embedding(reqs[r].body))
        \/ \E e \in ProviderErrors : EmbedQueryFails(r, e)
        \/ \E m \in SeqsUpTo(MatchShapes, MaxMatches) : QueryReturns(r, m)
        \/ \E e \in ProviderErrors : QueryFails(r, e)
        \/ \E t \in Answers : GenerateContentReturns(r, t)
        \/ \E e \in ProviderErrors : GenerateContentFails(r, e)

SpecOne == Init /\ [][NextOne]_vars

(***************************************************************************)
(* SpecGenerate: generateAnswer on its own, over every context of up to    *)
(* MaxContext texts, the empty one included.                                *)
(***************************************************************************)
ContextTexts == {Str(chunkSize, 1), Str(3, 2), Str(7, 4)}

NextGenerate ==
    \E r \in {1} :
        \/ \E x \in {Str(1, 2), Str(MaxQuestionLength, 3)},
              c \in SeqsUpTo(ContextTexts, MaxContext) :
              GenerateAnswerCalled(r, x, c)
        \/ \E t \in Answers : GenerateContentReturns(r, t)
        \/ \E e \in ProviderErrors : GenerateContentFails(r, e)

SpecGenerate == Init /\ [][NextGenerate]_vars

(***************************************************************************)
(* The claims.                                                             *)
(***************************************************************************)
\* The request answered with exactly one response, a 400 carrying `message`,
\* without any external call.
Rejected(q, message) ==
    /\ q.pc = "done"
    /\ q.resp = <<[status |-> 400, error |-> message, success |-> FALSE]>>
    /\ q.calls = <<>>

\* C1: an index request whose document is absent (falsy), else is no string,
\* else is longer than 500,000 characters is answered by a 400 with
\* success:false and the message of the first of these checks that fails, and
\* the splitter, the embedder and the index are never called for it; a string of
\* 1 to 500,000 characters passes and is handed to the splitter.
C1_IndexValidation ==
    \A r \in Reqs :
        reqs[r].kind = "index" =>
            LET d == reqs[r].body
                present == d.t \notin {"undefined", "null"} /\ d # Str(0, 0)
                                /\ d # Num(0) /\ d # Bool(FALSE)
                string == d.t = "string"
            IN  /\ ~present => Rejected(reqs[r], "Document text is required.")
                /\ present /\ ~string =>
                        Rejected(reqs[r], "Document text must be a string.")
                /\ present /\ string /\ d.v >= 500001 =>
                        Rejected(reqs[r], "Document text exceeds maximum length of 500,000 characters.")
                /\ present /\ string /\ d.v <= 500000 =>
                        /\ Len(reqs[r].calls) >= 1
                        /\ reqs[r].calls[1].op = "splitText"
                        /\ reqs[r].calls[1].text = d
                        /\ \A k \in 1..Len(reqs[r].resp) : reqs[r].resp[k].status # 400

\* C1's case: a document of 500,001 characters was rejected for its length.
C1_Witness ==
    \E r \in Reqs :
        /\ reqs[r].kind = "index"
        /\ reqs[r].body = Str(500001, 1)
        /\ Rejected(reqs[r], "Document text exceeds maximum length of 500,000 characters.")

\* C2: an answer request whose question is absent (falsy), else is no string,
\* else is longer than 1000 characters is answered by a 400 with success:false
\* and no external call; no question longer than 1000 characters is ever
\* embedded, searched for or put in a prompt.
C2_QuestionValidation ==
    \A r \in Reqs :
        reqs[r].kind = "answer" =>
            LET x == reqs[r].body
                present == x.t \notin {"undefined", "null"} /\ x # Str(0, 0)
                                /\ x # Num(0) /\ x # Bool(FALSE)
                string == x.t = "string"
            IN  /\ ~present => Rejected(reqs[r], "Question is required.")
                /\ present /\ ~string => Rejected(reqs[r], "Question must be a string.")
                /\ present /\ string /\ x.v >= 1001 =>
                        Rejected(reqs[r], "Question exceeds maximum length of 1,000 characters.")
                /\ present /\ string /\ x.v <= 1000 =>
                        /\ Len(reqs[r].calls) >= 1
                        /\ reqs[r].calls[1] = [op |-> "embedQuery", text |-> x]
                /\ \A k \in 1..Len(reqs[r].calls) :
                        LET c == reqs[r].calls[k]
                        IN  /\ c.op = "embedQuery" => c.text.v <= 1000
                            /\ c.op = "generateContent" => c.contents[2].v <= 1000
                            /\ c.op \in {"query", "generateContent"} => x.v <= 1000

\* C2's case: a question of 1001 characters was rejected without any call.
C2_Witness ==
    \E r \in Reqs :
        /\ reqs[r].kind = "answer"
        /\ reqs[r].body.t = "string"
        /\ reqs[r].body.v = 1001
        /\ Rejected(reqs[r], "Question exceeds maximum length of 1,000 characters.")

\* C3: in the answer operation, once the search returned and no match gave a
\* chunk text, the request has ended with the one response 200, success:true,
\* chunksRetrieved:0 and the canned answer, and the language model was not called.
C3_EmptyRetrieval ==
    \A r \in Reqs :
        LET q == reqs[r]
        IN  (/\ q.kind = "answer"
             /\ Len(q.rets) >= 2
             /\ q.rets[2] = "ok"
             /\ q.relevantChunks = <<>>) =>
                /\ q.pc = "done"
                /\ q.resp = <<[status |-> 200,
                               answer |-> "I couldn't find any relevant information in the document store to answer that question.",
                               success |-> TRUE,
                               chunksRetrieved |-> 0]>>
                /\ \A k \in 1..Len(q.calls) : q.calls[k].op # "generateContent"

\* C3's case: the search returned matches, none of them with a text.
C3_Witness ==
    \E r \in Reqs :
        /\ reqs[r].kind = "answer"
        /\ Len(reqs[r].rets) = 2
        /\ reqs[r].rets[2] = "ok"
        /\ Len(reqs[r].matches) = 2
        /\ reqs[r].relevantChunks = <<>>
        /\ reqs[r].pc = "done"

\* The operation of the k-th external call of a request of a kind.
StepOp(kind, k) ==
    IF kind = "index"
    THEN (IF k = 1 THEN "splitText" ELSE IF k = 2 THEN "embedDocuments" ELSE "upsert")
    ELSE (IF k = 1 THEN "embedQuery" ELSE IF k = 2 THEN "query"
          ELSE IF k = 3 THEN "generateContent" ELSE "none")

\* A step of the request failed: its last call threw, or the splitter returned
\* no chunk, or the embedder returned and no record was built from its result.
StepFailed(q) ==
    \/ Len(q.rets) >= 1 /\ q.rets[Len(q.rets)] = "fail"
    \/ q.kind = "index" /\ Len(q.rets) >= 1 /\ q.rets[1] = "ok" /\ q.chunks = <<>>
    \/ q.kind = "index" /\ Len(q.rets) >= 2 /\ q.rets[2] = "ok" /\ q.records = <<>>

\* The one failure response of an operation, whatever details it carries.
IsFailure(kind, x) ==
    /\ x.status = 500
    /\ x.success = FALSE
    /\ x.error = (IF kind = "index"
                  THEN "Failed to index document. Please try again."
                  ELSE "Failed to answer the question. Please try again.")

\* C4: the external calls of a request are made in pipeline order (split, embed,
\* upsert, ...; embed query, search, generate), each only after every earlier call
\* returned successfully, at most one pending, none repeated; once a step failed
\* (a call threw, the splitter returned no chunk, or the embedder's result was
\* refused) no further call is made and
\* the request has ended with the single failure response, status 500,
\* success:false.
C4_StepOrder ==
    \A r \in Reqs :
        LET q == reqs[r]
        IN  q.kind \in {"index", "answer"} =>
              /\ \A k \in 1..Len(q.calls) : q.calls[k].op = StepOp(q.kind, k)
              /\ \A k \in 1..(Len(q.calls) - 1) : Len(q.rets) >= k /\ q.rets[k] = "ok"
              /\ Len(q.rets) = (IF q.pc = "done" THEN Len(q.calls) ELSE Len(q.calls) - 1)
              /\ \A j, k \in 3..Len(q.calls) :
                    q.kind = "index" /\ j # k => q.calls[j].batch # q.calls[k].batch
              /\ StepFailed(q) =>
                    /\ q.pc = "done"
                    /\ Len(q.calls) = Len(q.rets)
                    /\ Len(q.resp) = 1
                    /\ IsFailure(q.kind, q.resp[1])

\* C4's case: the second upsert of an index request threw; the request ended
\* with the failure response after three calls and no fourth.
C4_Witness ==
    \E r \in Reqs :
        /\ reqs[r].kind = "index"
        /\ Len(reqs[r].records) > 2 * 100
        /\ reqs[r].rets = <<"ok", "ok", "ok", "fail">>
        /\ Len(reqs[r].calls) = 4
        /\ IsFailure("index", reqs[r].resp[1])

\* The number of upsert calls of an index request, and the k-th batch.
NumBatches(q) == IF Len(q.calls) > 2 THEN Len(q.calls) - 2 ELSE 0
Batch(q, k) == q.calls[2 + k].batch

\* The number of upsert calls of an index request that returned.
Acked(q) == Cardinality({k \in 1..NumBatches(q) : Len(q.rets) >= 2 + k /\ q.rets[2 + k] = "ok"})

\* The first n elements of s, all of s if it has fewer.
Prefix(s, n) == SubSeq(s, 1, IF n < Len(s) THEN n ELSE Len(s))

\* C5: the batches an index request submits are the consecutive slices of 100
\* records of its record sequence (the last one shorter), in order, each
\* submitted only after the one before returned; the index holds exactly the
\* records of the batches that returned, a prefix of the record sequence; when
\* batch k throws, no later batch is submitted, the index keeps the records of
\* batches 1..k-1 and the request ends with the failure response.
C5_Batches ==
    \A r \in Reqs :
        LET q == reqs[r]
        IN  q.kind = "index" =>
              /\ \A k \in 1..NumBatches(q) :
                    /\ Len(Batch(q, k)) \in 1..100
                    /\ Batch(q, k) = SubSeq(Prefix(q.records, 100 * k),
                                            100 * (k - 1) + 1,
                                            Len(Prefix(q.records, 100 * k)))
              /\ \A k \in 1..(NumBatches(q) - 1) : q.rets[2 + k] = "ok"
              /\ pinecone = Prefix(q.records, 100 * Acked(q))
              /\ \A k \in 1..NumBatches(q) :
                    (Len(q.rets) >= 2 + k /\ q.rets[2 + k] = "fail") =>
                        /\ NumBatches(q) = k
                        /\ q.pc = "done"
                        /\ pinecone = Prefix(q.records, 100 * (k - 1))
                        /\ Len(q.resp) = 1
                        /\ IsFailure("index", q.resp[1])

\* C5's case: the third batch of 201 records threw, 200 records stay stored.
C5_Witness ==
    \E r \in Reqs :
        /\ reqs[r].kind = "index"
        /\ Len(reqs[r].records) = 201
        /\ NumBatches(reqs[r]) = 3
        /\ reqs[r].rets = <<"ok", "ok", "ok", "ok", "fail">>
        /\ Len(pinecone) = 200

\* C6: when an index request ends with the success response, recordCount and
\* chunkCount both equal the number of chunks the splitter returned, the index
\* holds one record per chunk, the i-th with the i-th vector as values and the
\* i-th chunk as metadata text, and each record was in exactly one batch.
C6_SuccessCounts ==
    \A r \in Reqs :
        LET q == reqs[r]
            n == Len(q.chunks)
        IN  (q.kind = "index" /\ q.pc = "done" /\ q.resp[1].status = 200) =>
              /\ Len(q.resp) = 1
              /\ q.resp[1].success = TRUE
              /\ n >= 1
              /\ q.resp[1].chunkCount = n
              /\ q.resp[1].recordCount = n
              /\ Len(q.vectors) = n
              /\ Len(pinecone) = n
              /\ \A i \in 1..n :
                    /\ pinecone[i].values = q.vectors[i]
                    /\ pinecone[i].metadata.text = q.chunks[i]
                    /\ Cardinality({kj \in {<<k, j>> : k \in 1..NumBatches(q), j \in 1..100} :
                                        /\ kj[2] <= Len(Batch(q, kj[1]))
                                        /\ Batch(q, kj[1])[kj[2]].id = pinecone[i].id}) = 1

\* C6's case: a document of 201 chunks was indexed with success.
C6_Witness ==
    \E r \in Reqs :
        /\ reqs[r].kind = "index"
        /\ reqs[r].pc = "done"
        /\ reqs[r].resp[1].status = 200
        /\ Len(reqs[r].chunks) = 201
        /\ reqs[r].resp[1].recordCount = 201

\* The texts of the matches that carry a non-empty string as metadata text, in
\* the order of the matches.
RECURSIVE TextsOf(_)
TextsOf(ms) ==
    IF ms = <<>> THEN <<>>
    ELSE LET m == Head(ms)
             keep == /\ m.metadata # NoMetadata
                     /\ m.metadata.text.t = "string"
                     /\ m.metadata.text.v >= 1
         IN  (IF keep THEN <<m.metadata.text>> ELSE <<>>) \o TextsOf(Tail(ms))

\* C7: queryDocument searches with topK = 3; once the search returned, the
\* retrieved chunks are exactly the metadata texts of the matches that have a
\* non-empty string text, in the order of the matches: at most 3, none empty;
\* an empty result ends the request with a success response, not an error.
C7_Retrieval ==
    \A r \in Reqs :
        LET q == reqs[r]
        IN  q.kind = "answer" =>
              /\ \A k \in 1..Len(q.calls) :
                    q.calls[k].op = "query" => q.calls[k].topK = 3
              /\ (Len(q.rets) >= 2 /\ q.rets[2] = "ok") =>
                    /\ q.relevantChunks = TextsOf(q.matches)
                    /\ Len(q.relevantChunks) <= 3
                    /\ \A i \in 1..Len(q.relevantChunks) :
                          /\ q.relevantChunks[i].t = "string"
                          /\ q.relevantChunks[i].v > 0
                    /\ q.relevantChunks = <<>> =>
                          /\ q.pc = "done"
                          /\ q.resp[1].status = 200
                          /\ q.resp[1].success = TRUE

\* C7's case: three matches, the second without a text; the two texts are
\* retrieved in the order of the matches.
C7_Witness ==
    \E r \in Reqs :
        /\ reqs[r].kind = "answer"
        /\ Len(reqs[r].rets) >= 2
        /\ reqs[r].rets[2] = "ok"
        /\ Len(reqs[r].matches) = 3
        /\ reqs[r].matches[2].metadata = NoMetadata
        /\ reqs[r].relevantChunks = <<Str(3, 2), Str(chunkSize, 1)>>

\* C8: generateAnswer called with an empty context fails without calling the
\* language model; called with n > 0 context items it makes one call, with a
\* prompt whose context section is, for i = 1..n in order, "[", i, "] " and the
\* i-th item, consecutive entries separated by a blank line, and the text the
\* model returns is the answer, unchanged.
C8_Prompt ==
    \A r \in Reqs :
        LET q == reqs[r]
            n == Len(q.relevantChunks)
        IN  q.kind = "generate" =>
              /\ n = 0 =>
                    /\ q.calls = <<>>
                    /\ q.pc = "done"
                    /\ Len(q.resp) = 1
                    /\ q.resp[1].success = FALSE
              /\ n > 0 =>
                    /\ Len(q.calls) = 1
                    /\ q.calls[1].op = "generateContent"
                    /\ LET p == q.calls[1].contents
                           section == SubSeq(p, 4, Len(p) - 1)
                       IN  /\ p[2] = q.body
                           /\ p[3] = Lit("\n\nContext:\n")
                           /\ p[Len(p)] = Lit("\n\nAnswer with citations (e.g., [1], [2]):")
                           /\ Len(section) = 5 * n - 1
                           /\ \A i \in 1..n :
                                 /\ section[5 * (i - 1) + 1] = Lit("[")
                                 /\ section[5 * (i - 1) + 2] = Lit(ToString(i))
                                 /\ section[5 * (i - 1) + 3] = Lit("] ")
                                 /\ section[5 * (i - 1) + 4] = q.relevantChunks[i]
                           /\ \A i \in 1..(n - 1) : section[5 * i] = Lit("\n\n")
                    /\ q.rets = <<"ok">> =>
                          /\ Len(q.resp) = 1
                          /\ q.resp[1].status = 200
                          /\ q.resp[1].answer = q.response.text

\* C8's case: three context items, the model answered.
C8_Witness ==
    \E r \in Reqs :
        /\ reqs[r].kind = "generate"
        /\ Len(reqs[r].relevantChunks) = 3
        /\ reqs[r].relevantChunks[1] # reqs[r].relevantChunks[2]
        /\ reqs[r].rets = <<"ok">>
        /\ reqs[r].resp[1].answer = Str(40, 8)

\* C9: all records built by the index requests have pairwise different ids:
\* two records of one request, and two records of two requests.
C9_UniqueIds ==
    \A r1, r2 \in Reqs :
        \A k1 \in 1..Len(reqs[r1].records), k2 \in 1..Len(reqs[r2].records) :
            (r1 # r2 \/ k1 # k2) =>
                reqs[r1].records[k1].id # reqs[r2].records[k2].id

\* C10: a failure response has a details field only outside production mode;
\* in production mode the failure response of an operation is one fixed
\* response, whichever step failed and whatever the error was.
C10_Details ==
    \A r \in Reqs :
        \A k \in 1..Len(reqs[r].resp) :
            LET x == reqs[r].resp[k]
            IN  x.status = 500 =>
                  /\ "details" \in DOMAIN x => NODE_ENV # "production"
                  /\ NODE_ENV = "production" =>
                        x = [status |-> 500, success |-> FALSE,
                             error |-> IF reqs[r].kind = "index"
                                       THEN "Failed to index document. Please try again."
                                       ELSE "Failed to answer the question. Please try again."]

\* C10's case: in production mode an upsert threw and the request failed.
C10_Witness ==
    \E r \in Reqs :
        /\ NODE_ENV = "production"
        /\ reqs[r].kind = "index"
        /\ Len(reqs[r].rets) = 3
        /\ reqs[r].rets[3] = "fail"
        /\ reqs[r].resp[1].status = 500

\* The number of chunk texts a deterministic search of `store` gives for a
\* question: a function of the stored records and the question alone.
Retrievable(store, question) ==
    Len(TextsOf(Search(store, [vector |-> Embedding(question), topK |-> 3,
                               includeMetadata |-> TRUE])))

\* C11: no step of an answer request changes the records of the index; the
\* number of chunks an answer request retrieves is the number the search gives
\* for its question on the records stored when the search returns, and that is
\* the chunksRetrieved of its success response: two answer requests with one
\* question that search the same records report the same count.
C11_AnswerReadOnly ==
    [][\A r \in Reqs :
          (reqs'[r] # reqs[r] /\ reqs'[r].kind = "answer") =>
              /\ pinecone' = pinecone
              /\ \A k \in 1..Len(reqs'[r].calls) : reqs'[r].calls[k].op # "upsert"
              /\ (Len(reqs[r].rets) = 1 /\ reqs'[r].rets = <<"ok", "ok">>) =>
                    Len(reqs'[r].relevantChunks) = Retrievable(pinecone, reqs[r].body)
              /\ (reqs'[r].pc = "done" /\ reqs'[r].resp[1].status = 200) =>
                    reqs'[r].resp[1].chunksRetrieved = Len(reqs'[r].relevantChunks)]_vars

\* C11's case: an answer request retrieved the one stored chunk and ended with
\* success, the index holding the one record as before.
C11_Witness ==
    \E r \in Reqs :
        /\ reqs[r].kind = "answer"
        /\ reqs[r].pc = "done"
        /\ reqs[r].resp[1].status = 200
        /\ reqs[r].resp[1].chunksRetrieved = 1
        /\ Len(pinecone) = 1

\* C12: whenever generateEmbeddings has returned its vectors to the index
\* handler, there is one vector per chunk, all of one length, and that length is
\* greater than 0 (so a result with no vector or with a zero-length vector made
\* it fail).
C12_EmbeddingsValid ==
    \A r \in Reqs :
        LET q == reqs[r]
        IN  (q.kind = "index" /\ q.vectors # <<>>) =>
              /\ Len(q.vectors) = Len(q.chunks)
              /\ \A k \in 1..Len(q.vectors) :
                    /\ q.vectors[k].dim > 0
                    /\ q.vectors[k].dim = q.vectors[1].dim


\* C13: an index request whose embedding step handed back a number of vectors
\* other than the number of chunks has submitted no batch, has written nothing
\* to the index and has ended with the failure response; and every upsert call
\* carries records of a request that has as many vectors as chunks, one record
\* for each.
C13_Mismatch ==
    \A r \in Reqs :
        LET q == reqs[r]
        IN  q.kind = "index" =>
              /\ (Len(q.rets) >= 2 /\ q.rets[2] = "ok"
                  /\ Len(q.vectors) # Len(q.chunks)) =>
                    /\ Len(q.calls) = 2
                    /\ q.records = <<>>
                    /\ pinecone = <<>>
                    /\ q.pc = "done"
                    /\ IsFailure("index", q.resp[1])
              /\ \A k \in 1..Len(q.calls) :
                    q.calls[k].op = "upsert" =>
                        /\ Len(q.chunks) = Len(q.vectors)
                        /\ Len(q.records) = Len(q.chunks)
                        /\ \A j \in 1..Len(q.calls[k].batch) :
                              \E m \in 1..Len(q.records) :
                                  q.calls[k].batch[j] = q.records[m]

C13_Witness ==
    \E r \in Reqs :
        /\ reqs[r].kind = "index" /\ reqs[r].pc = "done"
        /\ reqs[r].rets = <<"ok", "ok">>
        /\ Len(reqs[r].chunks) >= 2
        /\ Len(reqs[r].vectors) = Len(reqs[r].chunks) - 1
        /\ reqs[r].resp[1].status = 500
        /\ pinecone = <<>>


\* The body of the request passes the input checks of its handler.
ValidBody(q) ==
    /\ q.body.t = "string"
    /\ q.body.v >= 1
    /\ q.body.v <= (IF q.kind = "index" THEN MaxDocumentLength ELSE MaxQuestionLength)

\* The request has its one response, and the status is 400 exactly for a body
\* that fails validation, 500 exactly for a valid body and a failed step, and
\* 200 otherwise.
OneResponse(q) ==
    /\ Len(q.resp) = 1
    /\ q.resp[1].status \in {200, 400, 500}
    /\ (q.resp[1].status = 400) <=> ~ValidBody(q)
    /\ (q.resp[1].status = 500) <=> (ValidBody(q) /\ StepFailed(q))
    /\ (q.resp[1].status = 200) <=> (ValidBody(q) /\ ~StepFailed(q))

\* C14: provided every awaited external call returns or throws, every request
\* that arrived is eventually answered; a request has no response before it is
\* done and exactly one once it is done, with status 400 exactly when its
\* validation failed, 500 exactly when a step failed after validation, and 200
\* otherwise; and a request that is not yet done can always take its next step,
\* whatever became of the other requests.
C14_OneResponse ==
    /\ [](\A r \in Reqs :
            /\ (reqs[r].pc # "done") => (reqs[r].resp = <<>>)
            /\ (reqs[r].pc = "done") => OneResponse(reqs[r])
            /\ (reqs[r].pc \notin {"idle", "done"}) => ENABLED ExternalAnswers(r))
    /\ \A r \in Reqs : (reqs[r].pc # "idle") ~> (reqs[r].pc = "done")

C14_Witness ==
    /\ reqs[1].pc = "done" /\ reqs[1].resp[1].status = 500
    /\ reqs[2].pc = "done" /\ reqs[2].resp[1].status = 200

\* The locals of a request hold what its own input and the results returned to
\* it give: the chunks of its own splitter call, one record per own chunk and
\* vector, the embedding of its own question, the texts of the matches it
\* received, and a response computed from these.
OwnState(q) ==
    /\ q.kind = "index" =>
          /\ q.queryVector = IdleReq.queryVector /\ q.matches = <<>>
          /\ q.relevantChunks = <<>> /\ q.response = IdleReq.response
          /\ \A k \in 1..Len(q.calls) :
                /\ q.calls[k].op = "splitText" => q.calls[k].text = q.body
                /\ q.calls[k].op = "embedDocuments" => q.calls[k].texts = q.chunks
          /\ (q.rets = <<>> \/ q.rets[1] = "fail") => q.chunks = <<>>
          /\ (Len(q.rets) < 2 \/ q.rets[2] = "fail") => q.vectors = <<>>
          /\ q.records # <<>> =>
                /\ Len(q.records) = Len(q.chunks)
                /\ Len(q.vectors) = Len(q.chunks)
                /\ \A k \in 1..Len(q.records) :
                      /\ q.records[k].values = q.vectors[k]
                      /\ q.records[k].metadata.text = q.chunks[k]
          /\ (q.pc = "done" /\ q.resp[1].status = 200) =>
                /\ q.resp[1].chunkCount = Len(q.chunks)
                /\ q.resp[1].recordCount = Len(q.records)
    /\ q.kind = "answer" =>
          /\ q.chunks = <<>> /\ q.vectors = <<>> /\ q.records = <<>>
          /\ \A k \in 1..Len(q.calls) :
                /\ q.calls[k].op = "embedQuery" => q.calls[k].text = q.body
                /\ q.calls[k].op = "query" => q.calls[k].vector = Embedding(q.body)
          /\ q.queryVector = (IF q.rets # <<>> /\ q.rets[1] = "ok"
                              THEN Embedding(q.body) ELSE IdleReq.queryVector)
          /\ q.relevantChunks = TextsOf(q.matches)
          /\ (Len(q.rets) < 2 \/ q.rets[2] = "fail") => q.matches = <<>>
          /\ (Len(q.rets) < 3 \/ q.rets[3] = "fail") => q.response = IdleReq.response
          /\ (q.pc = "done" /\ q.resp[1].status = 200) =>
                /\ q.resp[1].chunksRetrieved = Len(q.relevantChunks)
                /\ q.relevantChunks # <<>> => q.resp[1].answer = q.response.text

\* A step changes the locals of at most one request, leaves the configuration
\* alone, and changes the index only as the upsert of the request that steps.
Isolated ==
    /\ NODE_ENV' = NODE_ENV
    /\ \A r \in Reqs :
          reqs'[r] # reqs[r] =>
              /\ \A j \in Reqs \ {r} : reqs'[j] = reqs[j]
              /\ pinecone' # pinecone =>
                    /\ reqs[r].kind = "index" /\ reqs[r].pc = "upsert"
                    /\ pinecone' = Upsert(pinecone, PendingBatch(r))
    /\ pinecone' # pinecone => \E r \in Reqs : reqs'[r] # reqs[r]

\* C15: with requests interleaved at their awaits, each step reads and writes
\* the locals of one request only; chunks, vectors, records, retrieved texts and
\* response of a request follow from its own input and the results returned to
\* it; the index is the only state a request shares with another.
C15_Isolation ==
    /\ [](\A r \in Reqs : OwnState(reqs[r]))
    /\ [][Isolated]_vars

C15_Witness ==
    /\ reqs[1].kind = "index" /\ reqs[1].pc = "upsert"
    /\ reqs[2].kind = "answer" /\ reqs[2].pc = "query"

====
